---- MODULE Spec2Model ----
(***************************************************************************)
(* Share_Market_Analysis: the indicator computation of                     *)
(* share_data_preprocessing.py (add_features and the per-ticker loop) and  *)
(* the signal detection of share_market_trend_indicator.py                 *)
(* (analyze_signals and the per-file loop).                                *)
(*                                                                         *)
(* Numbers.  Prices and indicators are decimals with two places            *)
(* (DataFrame.round(2)); a value v is held as the integer v * Scale.       *)
(* Means and ratios are computed exactly (as the rational sum / count) and *)
(* rounded once, where the code rounds; the binary floating point error of *)
(* the library is not modelled.  NaN is the library's missing value: every *)
(* ordered comparison with it is false.                                    *)
(*                                                                         *)
(* Time.  A timestamp is a number of ticks, TicksPerDay ticks to the day;  *)
(* a Date column holds midnights (multiples of TicksPerDay), datetime.now()*)
(* is any tick.                                                            *)
(***************************************************************************)
EXTENDS Integers, Sequences, FiniteSets, TLC

VARIABLES
    pc,          \* where the run stands: "load", "tickers", "signals", "done"
    company,     \* company_list.csv: "ok", "missing" or "nocolumn"
    tickers,     \* per ticker, what fetch_stock_data gives: a table or FetchError
    tIdx,        \* position of the preprocessing loop in tickers
    folder,      \* processed_data/: the files in listing order
    fIdx,        \* position of the signal loop in folder
    outputs,     \* per analysed file, what analyze_signals left behind
    now          \* datetime.now() of the signal script

vars == <<pc, company, tickers, tIdx, folder, fIdx, outputs, now>>

-----------------------------------------------------------------------------
(* Program constants *)

Scale == 100
SMA_SHORT == 20
SMA_MID == 50
SMA_LONG == 200
RSI_PERIOD == 14
WINDOW_DAYS == 10
RSI_OVERSOLD == 30
RSI_OVERBOUGHT == 70

NaN == -1

REASON_BUY == "RSI_14 below 30 and Close crossed above SMA_20"
REASON_SELL == "RSI_14 above 70 and Close dropped below SMA_20"
REASON_BULLISH == "SMA_20 crossed above SMA_50 (Bullish Crossover)"
REASON_BEARISH == "SMA_20 crossed below SMA_50 (Bearish Crossover)"

(* Bounds of the model *)

TicksPerDay == 2
MaxBars == 2
MaxCrossBars == 5
MaxSlope == 1
ExtraBars == 1
MaxTickers == 3
MaxStale == 2
MaxBatchBars == 2

-----------------------------------------------------------------------------
(* Comparisons of float columns: false as soon as one side is NaN *)

IsNaN(x) == x = NaN

LtNaNAsNumber(a, b) == a < b

Lt(a, b) == ~IsNaN(a) /\ ~IsNaN(b) /\ a < b

Gt(a, b) == Lt(b, a)

-----------------------------------------------------------------------------
(* share_market_trend_indicator.py: analyze_signals *)

\* A Date cell of a CSV names a day ("dd-mm-YYYY"); pd.to_datetime gives its
\* midnight
Midnight(day) == day * TicksPerDay

to_datetime(rows) == [i \in 1..Len(rows) |-> [rows[i] EXCEPT !.Date = Midnight(@)]]

last_10_days(t) == t - WINDOW_DAYS * TicksPerDay

FilterNothing(data, t) == data

FilterWindow(data, t) ==
    LET InWindow(r) == r.Date >= last_10_days(t)
    IN  SelectSeq(data, InWindow)

\* Series.shift(1): the value of the row before, NaN on the first row
shift1(data, col, i) == IF i = 1 THEN NaN ELSE data[i - 1][col]

buy_condition(data, i) ==
    /\ Lt(data[i].RSI_14, RSI_OVERSOLD * Scale)
    /\ Gt(data[i].Close, data[i].SMA_20)

sell_condition(data, i) ==
    /\ Gt(data[i].RSI_14, RSI_OVERBOUGHT * Scale)
    /\ Lt(data[i].Close, data[i].SMA_20)

bullish_crossover_touch(data, i) ==
    /\ ~IsNaN(shift1(data, "SMA_20", i)) /\ ~IsNaN(shift1(data, "SMA_50", i))
    /\ shift1(data, "SMA_20", i) <= shift1(data, "SMA_50", i)
    /\ Gt(data[i].SMA_20, data[i].SMA_50)

bullish_crossover(data, i) ==
    /\ Lt(shift1(data, "SMA_20", i), shift1(data, "SMA_50", i))
    /\ Gt(data[i].SMA_20, data[i].SMA_50)

bearish_crossover(data, i) ==
    /\ Gt(shift1(data, "SMA_20", i), shift1(data, "SMA_50", i))
    /\ Lt(data[i].SMA_20, data[i].SMA_50)

\* The four pairs of data.loc[...] assignments of one row, in source order:
\* each rule that fires sets its own signal column and overwrites Reason.
MarkRow(data, i) ==
    LET buy  == buy_condition(data, i)
        sell == sell_condition(data, i)
        bull == bullish_crossover(data, i)
        bear == bearish_crossover(data, i)
        r1 == IF buy THEN REASON_BUY ELSE ""
        r2 == IF sell THEN REASON_SELL ELSE r1
        r3 == IF bull THEN REASON_BULLISH ELSE r2
        r4 == IF bear THEN REASON_BEARISH ELSE r3
    IN  [Date |-> data[i].Date, Close |-> data[i].Close,
         SMA_20 |-> data[i].SMA_20, SMA_50 |-> data[i].SMA_50,
         RSI_14 |-> data[i].RSI_14,
         Buy_Signal |-> IF buy \/ bull THEN "Buy" ELSE "",
         Sell_Signal |-> IF sell \/ bear THEN "Sell" ELSE "",
         Reason |-> r4,
         buy_condition |-> buy, sell_condition |-> sell,
         bullish_crossover |-> bull, bearish_crossover |-> bear]

HasSignal(r) == r.Buy_Signal = "Buy" \/ r.Sell_Signal = "Sell"

\* What one call leaves behind: how it ended, the windowed table after the
\* rules ran (with the four boolean Series), the signal rows, and whether a
\* signals CSV was written.
analyze_signals(file, t) ==
    IF file.kind = "corrupt"
    THEN [status |-> "error", data |-> <<>>, signals |-> <<>>, written |-> FALSE]
    ELSE IF file.kind = "nocolumns"
    THEN [status |-> "skipped", data |-> <<>>, signals |-> <<>>, written |-> FALSE]
    ELSE LET data    == FilterWindow(to_datetime(file.rows), t)
             marked  == [i \in 1..Len(data) |-> MarkRow(data, i)]
             signals == SelectSeq(marked, HasSignal)
         IN  [status |-> "ok", data |-> marked, signals |-> signals,
              written |-> signals # <<>>]

-----------------------------------------------------------------------------
(* share_data_preprocessing.py: add_features *)

\* DataFrame.round(2) of the exact quotient num / den (num >= 0, den > 0),
\* as a scaled integer: to the nearest, a tie to the even neighbour
Round2(num, den) ==
    LET q == num \div den
        r == num % den
    IN  IF 2 * r < den THEN q
        ELSE IF 2 * r > den THEN q + 1
        ELSE IF q % 2 = 0 THEN q ELSE q + 1

RollStepMinPeriods1(x, n, i, st) ==
    LET entersNaN == IsNaN(x[i])
        leaves    == i > n /\ ~IsNaN(x[i - n])
        sum1  == st.sum + (IF entersNaN THEN 0 ELSE x[i])
                        - (IF leaves THEN x[i - n] ELSE 0)
        nobs1 == st.nobs + (IF entersNaN THEN 0 ELSE 1)
                         - (IF leaves THEN 1 ELSE 0)
    IN  [sum |-> sum1, nobs |-> nobs1,
         out |-> Append(st.out, IF nobs1 >= 1 THEN sum1 ELSE NaN)]

\* Series.rolling(n): the sliding window of the library.  Row by row it adds
\* the value that enters, takes out the value that leaves, counts the
\* observations that are not NaN, and gives NaN until n of them are in the
\* window.  The result holds the window sums; the mean is the sum over n.
RollStep(x, n, i, st) ==
    LET entersNaN == IsNaN(x[i])
        leaves    == i > n /\ ~IsNaN(x[i - n])
        sum1  == st.sum + (IF entersNaN THEN 0 ELSE x[i])
                        - (IF leaves THEN x[i - n] ELSE 0)
        nobs1 == st.nobs + (IF entersNaN THEN 0 ELSE 1)
                         - (IF leaves THEN 1 ELSE 0)
    IN  [sum |-> sum1, nobs |-> nobs1,
         out |-> Append(st.out, IF nobs1 >= n THEN sum1 ELSE NaN)]

\* the rows lo..hi in order, from state st (the range is halved, and the
\* first half finished before the second, so that evaluation stays shallow)
RECURSIVE RollRows(_, _, _, _, _)
RollRows(x, n, lo, hi, st) ==
    IF lo > hi THEN st
    ELSE IF lo = hi THEN RollStep(x, n, lo, st)
    ELSE LET mid  == (lo + hi) \div 2
             half == RollRows(x, n, lo, mid, st)
         IN  IF half.nobs >= 0 THEN RollRows(x, n, mid + 1, hi, half) ELSE half

rolling_sum(x, n) ==
    RollRows(x, n, 1, Len(x), [sum |-> 0, nobs |-> 0, out |-> <<>>]).out

\* rolling(window=n).mean(), rounded to two places by the final round(2)
rolling_mean(x, n) ==
    LET sums == rolling_sum(x, n)
    IN  [i \in 1..Len(x) |-> IF IsNaN(sums[i]) THEN NaN ELSE Round2(sums[i], n)]

\* Close.diff(1) at row i > 1 (row 1 has no row before it: NaN)
diff1(close, i) == close[i] - close[i - 1]

\* diff(1).apply(lambda x: max(x, 0)); max(nan, 0) is nan
gain(close) ==
    [i \in 1..Len(close) |->
        IF i = 1 THEN NaN ELSE IF diff1(close, i) > 0 THEN diff1(close, i) ELSE 0]

loss_delta(close) ==
    [i \in 1..Len(close) |->
        IF i = 1 THEN NaN ELSE IF diff1(close, i) < 0 THEN -diff1(close, i) ELSE 0]

\* diff(1).apply(lambda x: abs(x)): the magnitude of every delta, gains too
abs_delta(close) ==
    [i \in 1..Len(close) |->
        IF i = 1 THEN NaN ELSE IF diff1(close, i) < 0 THEN -diff1(close, i)
                                                      ELSE diff1(close, i)]

\* 100 - 100 / (1 + mean_gain / mean_abs), with mean_gain = G / 14 and
\* mean_abs = A / 14: the quotient is G / A, 0 / 0 is NaN, and otherwise
\* 100 - 100 * A / (A + G) = (100 * (A + G) - 100 * A) / (A + G)
rsi_14(close) ==
    LET G == rolling_sum(gain(close), RSI_PERIOD)
        A == rolling_sum(abs_delta(close), RSI_PERIOD)
    IN  [i \in 1..Len(close) |->
            IF IsNaN(G[i]) \/ IsNaN(A[i]) \/ A[i] = 0 THEN NaN
            ELSE Round2(Scale * (100 * (A[i] + G[i]) - 100 * A[i]), A[i] + G[i])]

\* Daily_Return and Volatility_20 are columns no rule reads; they are left out.
add_features(data) ==
    LET close == [i \in 1..Len(data) |-> data[i].Close]
        sma20 == rolling_mean(close, SMA_SHORT)
        sma50 == rolling_mean(close, SMA_MID)
        sma200 == rolling_mean(close, SMA_LONG)
        rsi == rsi_14(close)
    IN  [i \in 1..Len(data) |->
            [Date |-> data[i].Date, Close |-> data[i].Close,
             SMA_20 |-> sma20[i], SMA_50 |-> sma50[i], SMA_200 |-> sma200[i],
             RSI_14 |-> rsi[i]]]

-----------------------------------------------------------------------------
(* share_data_preprocessing.py: the script *)

TableFile(name, rows) == [kind |-> "table", name |-> name, rows |-> rows]

\* pd.read_csv("company_list.csv") and the 'Ticker' column check; a failure
\* is logged by one of the handlers after the loop and the script ends
LoadCompanyList ==
    /\ pc = "load"
    /\ pc' = IF company = "ok" THEN "tickers" ELSE "signals"
    /\ UNCHANGED <<company, tickers, tIdx, folder, fIdx, outputs, now>>

\* One pass of "for ticker in tickers": fetch, save raw and cleaned, add the
\* features, save the processed file.  The loop stands inside the script's
\* single try: an exception in the pass is caught after the loop, which ends.
ProcessTicker ==
    /\ pc = "tickers"
    /\ tIdx <= Len(tickers)
    /\ IF tickers[tIdx].kind = "raise"
       THEN /\ pc' = "signals"
            /\ UNCHANGED <<tIdx, folder>>
       ELSE /\ folder' = Append(folder, TableFile(tIdx, add_features(tickers[tIdx].rows)))
            /\ tIdx' = tIdx + 1
            /\ pc' = pc
    /\ UNCHANGED <<company, tickers, fIdx, outputs, now>>

TickersDone ==
    /\ pc = "tickers"
    /\ tIdx > Len(tickers)
    /\ pc' = "signals"
    /\ UNCHANGED <<company, tickers, tIdx, folder, fIdx, outputs, now>>

NextPreprocess == LoadCompanyList \/ ProcessTicker \/ TickersDone

-----------------------------------------------------------------------------
(* The signal script's loop over processed_data/.  The folder exists (the *)
(* preprocessing script creates it) and every file in it is named        *)
(* <ticker>_processed_data.csv.                                           *)

AnalyzeFile ==
    /\ pc = "signals"
    /\ fIdx <= Len(folder)
    /\ outputs' = Append(outputs, analyze_signals(folder[fIdx], now))
    /\ fIdx' = fIdx + 1
    /\ UNCHANGED <<pc, company, tickers, tIdx, folder, now>>

SignalsCompleted ==
    /\ pc = "signals"
    /\ fIdx > Len(folder)
    /\ pc' = "done"
    /\ UNCHANGED <<company, tickers, tIdx, folder, fIdx, outputs, now>>

NextSignals == AnalyzeFile \/ SignalsCompleted

-----------------------------------------------------------------------------
(* Inputs of the signal script: any table with the required columns *)

FirstDay == WINDOW_DAYS

CloseVals == {2 * Scale}
Sma20Vals == {NaN, 1 * Scale, 2 * Scale, 3 * Scale}
Sma50Vals == {NaN, 2 * Scale}
RsiVals   == {NaN, 20 * Scale, 30 * Scale, 70 * Scale, 80 * Scale}

Cells(sma50s, rsis) ==
    [Close : CloseVals, SMA_20 : Sma20Vals, SMA_50 : sma50s, RSI_14 : rsis]

\* n bars on consecutive days from FirstDay, ascending as the preprocessing
\* script writes them
Tables(n, sma50s, rsis) ==
    { [i \in 1..n |-> [Date |-> FirstDay + i - 1, Close |-> c[i].Close,
                       SMA_20 |-> c[i].SMA_20, SMA_50 |-> c[i].SMA_50,
                       RSI_14 |-> c[i].RSI_14]] : c \in [1..n -> Cells(sma50s, rsis)] }

\* now: from the moment the first bar is the oldest of the window (on its
\* boundary) until no bar is left in it
Nows(n) ==
    { Midnight(FirstDay + n - 1 + k) + tod :
        k \in (WINDOW_DAYS - n + 1)..WINDOW_DAYS, tod \in 0..(TicksPerDay - 1) }

InitSignals(maxBars, sma50s, rsis) ==
    /\ pc = "signals"
    /\ company = "ok"
    /\ tickers = <<>>
    /\ tIdx = 1
    /\ \E n \in 1..maxBars :
          /\ \E rows \in Tables(n, sma50s, rsis) : folder = <<TableFile(0, rows)>>
          /\ now \in Nows(n)
    /\ fIdx = 1
    /\ outputs = <<>>

Init == InitSignals(MaxBars, Sma50Vals, RsiVals)

Spec == Init /\ [][NextSignals]_vars

\* Longer tables for the crossover rules alone: RSI_14 neutral, SMA_50 defined
InitCross == InitSignals(MaxCrossBars, {2 * Scale}, {50 * Scale})

SpecCross == InitCross /\ [][NextSignals]_vars

-----------------------------------------------------------------------------
(* The two scripts one after the other, on fetched price histories *)

Next == NextPreprocess \/ NextSignals

Base == 200 * Scale

Min(a, b) == IF a < b THEN a ELSE b

Max(a, b) == IF a > b THEN a ELSE b

\* a price history of len daily bars from FirstDay: s1 a day (in hundredths)
\* for the first turn days, s2 a day after them
History(len, s1, turn, s2) ==
    [i \in 1..len |->
        [Date |-> FirstDay + i - 1,
         Close |-> Base + s1 * Min(i - 1, turn) + s2 * Max(i - 1 - turn, 0)]]

Slopes == (-MaxSlope)..MaxSlope

Turns == {SMA_MID, SMA_MID + 5}

Lens == {1, RSI_PERIOD, RSI_PERIOD + 1, SMA_SHORT - 1, SMA_SHORT, SMA_MID - 1,
         SMA_MID, SMA_MID + 30, SMA_LONG - 1, SMA_LONG, SMA_LONG + ExtraBars}

Fetched(rows) == [kind |-> "data", rows |-> rows]

FetchRaises == [kind |-> "raise", rows |-> <<>>]

\* one ticker with a long history; the signal script runs the day after the
\* last bar
InitPipeline ==
    /\ pc = "load"
    /\ company = "ok"
    /\ \E len \in Lens, s1 \in Slopes, s2 \in Slopes, turn \in Turns :
          /\ tickers = <<Fetched(History(len, s1, turn, s2))>>
          /\ \E tod \in 0..(TicksPerDay - 1) : now = Midnight(FirstDay + len) + tod
    /\ tIdx = 1
    /\ folder = <<>>
    /\ fIdx = 1
    /\ outputs = <<>>

SpecPipeline == InitPipeline /\ [][Next]_vars

\* what a fetch may give in a batch: an exception, or a short history
FetchOutcomes ==
    {FetchRaises} \cup
        { Fetched(History(len, s, 0, s)) : len \in 1..MaxBatchBars, s \in {0, 1} }

\* files left in processed_data/ by earlier runs: unreadable, or without the
\* required columns
StaleFiles ==
    { [kind |-> k, name |-> 0, rows |-> <<>>] : k \in {"corrupt", "nocolumns"} }

SeqsUpTo(S, n) == UNION { [1..m -> S] : m \in 0..n }

InitBatch ==
    /\ pc = "load"
    /\ company \in {"ok", "missing", "nocolumn"}
    /\ tickers \in SeqsUpTo(FetchOutcomes, MaxTickers)
    /\ tIdx = 1
    /\ folder \in SeqsUpTo(StaleFiles, MaxStale)
    /\ fIdx = 1
    /\ outputs = <<>>
    /\ now = Midnight(FirstDay + MaxBatchBars)

SpecBatch == InitBatch /\ [][Next]_vars

-----------------------------------------------------------------------------
(* Properties of analyze_signals *)

Analysed == 1..Len(outputs)

\* the rows of file k as read (Date parsed), before the window filter
Input(k) == to_datetime(folder[k].rows)

Windowed(k) == outputs[k].data

\* the position in Input(k) of the i-th window row (its Date is unique)
Origin(k, i) == CHOOSE j \in 1..Len(Input(k)) : Input(k)[j].Date = Windowed(k)[i].Date

Defined2(r) == ~IsNaN(r.SMA_20) /\ ~IsNaN(r.SMA_50)

Above(r) == Defined2(r) /\ r.SMA_20 > r.SMA_50

Below(r) == Defined2(r) /\ r.SMA_20 < r.SMA_50

NotAbove(r) == Defined2(r) /\ r.SMA_20 <= r.SMA_50

Emitted(k, i) == \E s \in 1..Len(outputs[k].signals) :
                    outputs[k].signals[s].Date = Windowed(k)[i].Date

\* C1: on every window bar the bullish (bearish) crossover fires exactly when
\* the crossover evaluated on the full series, with the bar just before it in
\* the full series, fires there; the window filter comes after detection.
C1_FullSeriesLookback ==
    \A k \in Analysed : \A i \in 1..Len(Windowed(k)) :
        /\ Windowed(k)[i].bullish_crossover = bullish_crossover(Input(k), Origin(k, i))
        /\ Windowed(k)[i].bearish_crossover = bearish_crossover(Input(k), Origin(k, i))

\* C2: on a window bar that has a bar before it in the window, the bullish
\* crossover fires exactly when SMA_20 <= SMA_50 held on the bar before
\* (equality included) and SMA_20 > SMA_50 holds on it; a firing bar is marked
\* Buy with the bullish reason.
C2_BullishFiresFromNotAbove ==
    \A k \in Analysed : \A i \in 2..Len(Windowed(k)) :
        /\ Windowed(k)[i].bullish_crossover
              <=> (NotAbove(Windowed(k)[i - 1]) /\ Above(Windowed(k)[i]))
        /\ Windowed(k)[i].bullish_crossover
              => /\ Windowed(k)[i].Buy_Signal = "Buy"
                 /\ Windowed(k)[i].Reason = REASON_BULLISH

\* C3: a reason is overwritten only by a later rule of the same action: a bar
\* where rule 1 fires and the bullish crossover does not is emitted as a Buy
\* with rule 1's reason, whatever Sell rule fires there; and a bar where
\* rule 2 fires and the bearish crossover does not keeps rule 2's reason.
C3_ReasonKeptAcrossActions ==
    \A k \in Analysed : \A i \in 1..Len(Windowed(k)) :
        LET r == Windowed(k)[i]
        IN  /\ (r.buy_condition /\ ~r.bullish_crossover)
                  => (Emitted(k, i) /\ r.Buy_Signal = "Buy" /\ r.Reason = REASON_BUY)
            /\ (r.sell_condition /\ ~r.bearish_crossover)
                  => (Emitted(k, i) /\ r.Sell_Signal = "Sell" /\ r.Reason = REASON_SELL)

\* the crossover rules have what they need on window bar i: both averages on
\* the bar and on the bar before it in the table the rules run on
CrossoverInputsDefined(k, i) ==
    /\ Defined2(Windowed(k)[i])
    /\ i > 1
    /\ Defined2(Windowed(k)[i - 1])

ReversalInputsDefined(k, i) ==
    ~IsNaN(Windowed(k)[i].RSI_14) /\ ~IsNaN(Windowed(k)[i].SMA_20)

\* C7: a rule with an undefined indicator in its condition does not fire and
\* the call ends without an error; a bar on which every rule is out for this
\* reason is marked with nothing and gives no signal record.
C7_UndefinedNeverFires ==
    \A k \in Analysed :
        /\ folder[k].kind = "table" => outputs[k].status = "ok"
        /\ \A i \in 1..Len(Windowed(k)) :
              LET r == Windowed(k)[i]
              IN  /\ ~ReversalInputsDefined(k, i)
                        => ~r.buy_condition /\ ~r.sell_condition
                  /\ ~CrossoverInputsDefined(k, i)
                        => ~r.bullish_crossover /\ ~r.bearish_crossover
                  /\ (~ReversalInputsDefined(k, i) /\ ~CrossoverInputsDefined(k, i))
                        => /\ ~Emitted(k, i)
                           /\ r.Buy_Signal = "" /\ r.Sell_Signal = "" /\ r.Reason = ""

\* a bar with RSI_14 undefined, Close above SMA_20 and SMA_20 below SMA_50,
\* after a bar with SMA_20 defined and SMA_50 undefined: nothing is emitted
C7_Witness ==
    \E k \in Analysed : \E i \in 2..Len(Windowed(k)) :
        /\ IsNaN(Windowed(k)[i].RSI_14)
        /\ Gt(Windowed(k)[i].Close, Windowed(k)[i].SMA_20)
        /\ Below(Windowed(k)[i])
        /\ ~IsNaN(Windowed(k)[i - 1].SMA_20)
        /\ IsNaN(Windowed(k)[i - 1].SMA_50)
        /\ ~Emitted(k, i)

AllBeforeWindow(k) ==
    \A j \in 1..Len(Input(k)) : Input(k)[j].Date < last_10_days(now)

RuleHoldsOnInput(k) ==
    \E j \in 1..Len(Input(k)) :
        \/ buy_condition(Input(k), j) \/ sell_condition(Input(k), j)
        \/ bullish_crossover(Input(k), j) \/ bearish_crossover(Input(k), j)

\* C8: every signal record is dated within the trailing window; a table
\* whose bars are all dated before the window gives no signal and no file.
C8_SignalsOnlyInWindow ==
    \A k \in Analysed :
        /\ \A s \in 1..Len(outputs[k].signals) :
              outputs[k].signals[s].Date >= last_10_days(now)
        /\ AllBeforeWindow(k) => (outputs[k].signals = <<>> /\ ~outputs[k].written)

C8_Witness ==
    \E k \in Analysed :
        /\ folder[k].kind = "table"
        /\ AllBeforeWindow(k)
        /\ RuleHoldsOnInput(k)
        /\ outputs[k].signals = <<>>

-----------------------------------------------------------------------------
(* Properties of the crossover rules over longer tables (SpecCross) *)

BullishAt(k, i) == Windowed(k)[i].bullish_crossover

BearishAt(k, i) == Windowed(k)[i].bearish_crossover

-----------------------------------------------------------------------------
(* Properties of add_features and of the two scripts together *)

\* the files of processed_data/ written by this run, each named by its ticker
Processed == { f \in 1..Len(folder) : folder[f].kind = "table" /\ folder[f].name >= 1 }

Raw(f) == tickers[folder[f].name].rows

Enriched(f) == folder[f].rows

RawClose(f) == [i \in 1..Len(Raw(f)) |-> Raw(f)[i].Close]

RECURSIVE SumRange(_, _, _)
SumRange(x, lo, hi) ==
    IF lo > hi THEN 0
    ELSE IF lo = hi THEN x[lo]
    ELSE LET mid == (lo + hi) \div 2
         IN  SumRange(x, lo, mid) + SumRange(x, mid + 1, hi)

SmaWindows == {SMA_SHORT, SMA_MID, SMA_LONG}

SmaColumn(n) == CASE n = SMA_SHORT -> "SMA_20"
                  [] n = SMA_MID   -> "SMA_50"
                  [] n = SMA_LONG  -> "SMA_200"

Abs(v) == IF v < 0 THEN -v ELSE v

OneToOne(f) ==
    /\ Len(Enriched(f)) = Len(Raw(f))
    /\ \A i \in 1..Len(Raw(f)) :
          /\ Enriched(f)[i].Date = Raw(f)[i].Date
          /\ Enriched(f)[i].Close = Raw(f)[i].Close

\* C9 as stated: the enriched table matches the input bar for bar, and for
\* n in {20, 50, 200} the SMA of row i (counted from 1) is undefined when
\* i < n and otherwise is the arithmetic mean of the n closes ending at i.
C9_SmaIsExactMean ==
    \A f \in Processed :
        LET close == RawClose(f)
        IN  /\ OneToOne(f)
            /\ \A n \in SmaWindows : \A i \in 1..Len(close) :
                  LET v == Enriched(f)[i][SmaColumn(n)]
                  IN  IF i < n THEN IsNaN(v)
                      ELSE ~IsNaN(v) /\ v * n = SumRange(close, i - n + 1, i)

\* C9 amended: ... and otherwise is that mean rounded to two decimal places
\* (the hundredth nearest to it: at most half a hundredth away).
C9_SmaIsRoundedMean ==
    \A f \in Processed :
        LET close == RawClose(f)
        IN  /\ OneToOne(f)
            /\ \A n \in SmaWindows : \A i \in 1..Len(close) :
                  LET v == Enriched(f)[i][SmaColumn(n)]
                  IN  IF i < n THEN IsNaN(v)
                      ELSE /\ ~IsNaN(v)
                           /\ 2 * Abs(v * n - SumRange(close, i - n + 1, i)) <= n

\* a history long enough for SMA_200, with a row where the three averages are
\* defined and the 200-bar mean is not a whole number of hundredths
C9_Witness ==
    \E f \in Processed : \E i \in 1..Len(Raw(f)) :
        /\ i >= SMA_LONG
        /\ \A n \in SmaWindows : ~IsNaN(Enriched(f)[i][SmaColumn(n)])
        /\ SumRange(RawClose(f), i - SMA_LONG + 1, i) % SMA_LONG # 0

StrictlyIncreasing(x) == \A i \in 2..Len(x) : x[i - 1] < x[i]

\* C4: on a strictly increasing close series of at least 15 bars, RSI_14 is
\* 100 on every row that has 14 deltas before it.
C4_RisingRsiIs100 ==
    \A f \in Processed :
        (StrictlyIncreasing(RawClose(f)) /\ Len(Raw(f)) >= RSI_PERIOD + 1)
            => \A i \in (RSI_PERIOD + 1)..Len(Raw(f)) :
                  Enriched(f)[i].RSI_14 = 100 * Scale

FromThisRun(k) == k \in Processed

\* C10: RSI_14 as add_features computes it lies in [0, 50] wherever it is
\* defined; so on an enriched table the overbought sell condition holds on
\* no row, and every Sell signal found in a file of this run carries the
\* bearish crossover reason.
C10_RsiAtMost50 ==
    /\ \A f \in Processed : \A i \in 1..Len(Enriched(f)) :
          /\ ~IsNaN(Enriched(f)[i].RSI_14)
                => (0 <= Enriched(f)[i].RSI_14 /\ 2 * Enriched(f)[i].RSI_14 <= 100 * Scale)
          /\ ~sell_condition(Enriched(f), i)
    /\ \A k \in Analysed : FromThisRun(k) =>
          /\ \A i \in 1..Len(Windowed(k)) : ~Windowed(k)[i].sell_condition
          /\ \A s \in 1..Len(outputs[k].signals) :
                outputs[k].signals[s].Sell_Signal = "Sell"
                    => /\ outputs[k].signals[s].Reason = REASON_BEARISH
                       /\ outputs[k].signals[s].bearish_crossover

\* a Sell signal found end to end, on a row with RSI_14 defined, in a file
\* that also has rows with RSI_14 at 50 and Close below SMA_20
C10_Witness ==
    \E k \in Analysed :
        /\ FromThisRun(k)
        /\ \E s \in 1..Len(outputs[k].signals) :
              /\ outputs[k].signals[s].Sell_Signal = "Sell"
              /\ ~IsNaN(outputs[k].signals[s].RSI_14)
        /\ \E i \in 1..Len(Enriched(k)) : 2 * Enriched(k)[i].RSI_14 = 100 * Scale

\* C6: in a finished run, a ticker whose pass failed does not keep a later
\* ticker from being processed (its processed file exists), and a file whose
\* analysis failed does not keep a later file from being analysed.
C6_FailureDoesNotStopBatch ==
    (pc = "done" /\ company = "ok") =>
        /\ \A k \in 1..Len(tickers) : \A j \in (k + 1)..Len(tickers) :
              (tickers[k].kind = "raise" /\ tickers[j].kind = "data")
                  => \E f \in Processed : folder[f].name = j
        /\ \A k \in 1..Len(folder) : \A j \in (k + 1)..Len(folder) :
              (k \in Analysed /\ outputs[k].status = "error")
                  => (j \in Analysed /\ (folder[j].kind = "table" => outputs[j].status = "ok"))

====
